---- MODULE Spec2Model ----
(***************************************************************************)
(* Model of the two FastAPI services of the repository:                    *)
(*   python_ai_plugin/app.py           chat over OpenAI, Gemini, Snowflake *)
(*   python_question_generator/app.py  question generation over DeepSeek   *)
(*                                     and Snowflake                       *)
(* One process runs one of the two services.  A request is handled from    *)
(* its arrival up to the await of the outbound call, and from the upstream *)
(* reply to the response.                                                  *)
(***************************************************************************)
EXTENDS Integers, Sequences, FiniteSets, TLC

VARIABLES service, settings, phase, http_client, pc, req, adapter,
          adapter_args, outbound_calls, upstream, response, steps

vars == <<service, settings, phase, http_client, pc, req, adapter,
          adapter_args, outbound_calls, upstream, response, steps>>

(***************************************************************************)
(* Bounds of the model                                                     *)
(***************************************************************************)
\* longest prompt, in characters, a client sends
MaxPromptLen == 2
\* most elements of the JSON array the question-generation upstream returns
MaxItems == 2
\* most Snowflake fields left unset in a partly configured environment
MaxUnset == 1
\* requests handled at the same time
MaxRequests == 2

(***************************************************************************)
(* Python values                                                           *)
(***************************************************************************)
None == "None"
EmptyObj == [k \in {} |-> TRUE]

\* bool(v) of an Optional[str]
Truthy(v) == v # None /\ v # ""

\* all([...]) over a list of Optional[str]
all(vs) == \A i \in DOMAIN vs : Truthy(vs[i])

Range(s) == {s[i] : i \in DOMAIN s}
SeqsUpTo(S, n) == UNION {[1..k -> S] : k \in 0..n}

\* str.strip() on a text kept as a sequence of characters
IsSpace(c) == c \in {" ", "\n"}

RECURSIVE lstrip(_)
lstrip(s) == IF s = <<>> THEN s
             ELSE IF IsSpace(Head(s)) THEN lstrip(Tail(s)) ELSE s

RECURSIVE rstrip(_)
rstrip(s) == IF s = <<>> THEN s
             ELSE IF IsSpace(s[Len(s)]) THEN rstrip(SubSeq(s, 1, Len(s) - 1)) ELSE s

strip(s) == rstrip(lstrip(s))

(***************************************************************************)
(* Configuration                                                           *)
(***************************************************************************)
CredValues == {None, "", "key"}

SnowflakeFields == {"snowflake_account", "snowflake_user", "snowflake_password",
                    "snowflake_warehouse", "snowflake_database", "snowflake_schema"}

\* Snowflake configurations: fully configured, not configured at all, or at most
\* MaxUnset fields left unset; an unset field is absent (None) or the empty string
SnowflakeConfigs ==
    {[f \in SnowflakeFields |-> IF f \in unset THEN how ELSE "sf"] :
        unset \in {u \in SUBSET SnowflakeFields :
                      Cardinality(u) <= MaxUnset \/ u = SnowflakeFields},
        how \in {None, ""}}

\* Settings of python_ai_plugin
ChatSettings ==
    {[openai_api_key |-> o, gemini_api_key |-> g] @@ sf :
        o \in CredValues, g \in CredValues, sf \in SnowflakeConfigs}

\* Settings of python_question_generator
QGSettings ==
    {[deepseek_api_key |-> d] @@ sf : d \in CredValues, sf \in SnowflakeConfigs}

max_file_size == 10 * 1024 * 1024

(***************************************************************************)
(* Status codes                                                            *)
(***************************************************************************)
HTTP_200_OK == 200
HTTP_400_BAD_REQUEST == 400
HTTP_413_REQUEST_ENTITY_TOO_LARGE == 413
HTTP_422_UNPROCESSABLE_ENTITY == 422
HTTP_500_INTERNAL_SERVER_ERROR == 500
HTTP_502_BAD_GATEWAY == 502
HTTP_503_SERVICE_UNAVAILABLE == 503

(***************************************************************************)
(* Responses                                                               *)
(***************************************************************************)
NoResponse == [status |-> 0, body |-> EmptyObj]

\* http_exception_handler of python_ai_plugin
http_exception_handler(status_code, detail) ==
    [status |-> status_code,
     body |-> [error |-> "HTTP Error", detail |-> detail, status_code |-> status_code]]

\* a raised HTTPException as the client receives it: python_ai_plugin renders it
\* with http_exception_handler, python_question_generator registers no handler and
\* the framework's default renders the detail alone
HTTPException(status_code, detail) ==
    IF service = "ai_plugin"
    THEN http_exception_handler(status_code, detail)
    ELSE [status |-> status_code, body |-> [detail |-> detail]]

\* a request rejected by FastAPI's validation of the declared parameters
RequestValidationError(loc) ==
    [status |-> HTTP_422_UNPROCESSABLE_ENTITY, body |-> [detail |-> <<loc>>]]

\* a model returned by an endpoint
JSONResponse(model) == [status |-> HTTP_200_OK, body |-> model]

(***************************************************************************)
(* ChatRequest                                                             *)
(***************************************************************************)
ChatRequest_max_length == 10000

Chars == {" ", "a"}
Prompts == SeqsUpTo(Chars, MaxPromptLen)

\* JSON bodies a client posts to /chat/{provider}
ChatBodies == {EmptyObj} \cup {[prompt |-> p] : p \in Prompts}

\* a prompt of n letters
Letters(n) == [i \in 1..n |-> "a"]

\* prompts at the length limit: of max_length and max_length + 1 letters, and the
\* same lengths reached with a space on either side
LongPrompts ==
    {Letters(ChatRequest_max_length),
     Letters(ChatRequest_max_length + 1),
     <<" ">> \o Letters(ChatRequest_max_length - 2) \o <<" ">>,
     <<" ">> \o Letters(ChatRequest_max_length - 1) \o <<" ">>}

LongChatBodies == {[prompt |-> p] : p \in LongPrompts}

\* ChatRequest without max_length
ChatRequest_unbounded(body) ==
    IF "prompt" \notin DOMAIN body THEN [ok |-> FALSE, prompt |-> <<>>]
    ELSE IF Len(body.prompt) < 1 THEN [ok |-> FALSE, prompt |-> <<>>]
    ELSE IF strip(body.prompt) = <<>> THEN [ok |-> FALSE, prompt |-> <<>>]
    ELSE [ok |-> TRUE, prompt |-> strip(body.prompt)]

\* ChatRequest with validate_prompt left out: only the length limits apply
ChatRequest_without_validator(body) ==
    IF "prompt" \notin DOMAIN body THEN [ok |-> FALSE, prompt |-> <<>>]
    ELSE IF Len(body.prompt) < 1 \/ Len(body.prompt) > 10000
         THEN [ok |-> FALSE, prompt |-> <<>>]
    ELSE [ok |-> TRUE, prompt |-> body.prompt]

\* ChatRequest(**body): field constraints, then validate_prompt
ChatRequest(body) ==
    IF "prompt" \notin DOMAIN body THEN [ok |-> FALSE, prompt |-> <<>>]
    ELSE IF Len(body.prompt) < 1 \/ Len(body.prompt) > ChatRequest_max_length
         THEN [ok |-> FALSE, prompt |-> <<>>]
    ELSE IF strip(body.prompt) = <<>> THEN [ok |-> FALSE, prompt |-> <<>>]
    ELSE [ok |-> TRUE, prompt |-> strip(body.prompt)]

(***************************************************************************)
(* Upstream replies                                                        *)
(***************************************************************************)
ErrorStatuses == {301, 404, 429, 500}
SuccessStatuses == {200}
Texts == {"Hi there", ""}

TransportFailures ==
    {[kind |-> "transport", exc |-> e] : e \in {"TimeoutException", "ConnectError"}}

HttpReply(status, json_ok, data) ==
    [kind |-> "http", status |-> status, json_ok |-> json_ok, data |-> data]

\* response.raise_for_status()
raise_for_status(reply) == ~(reply.status >= 200 /\ reply.status <= 299)

OpenAIData ==
    {EmptyObj,
     [choices |-> <<>>],
     [choices |-> <<EmptyObj>>],
     [choices |-> <<[message |-> EmptyObj]>>],
     [choices |-> <<[message |-> [content |-> None]]>>]}
    \cup {[choices |-> <<[message |-> [content |-> t]]>>] : t \in Texts}
    \cup {[choices |-> <<[message |-> [content |-> t]]>>,
           model |-> "gpt-3.5-turbo", usage |-> [total_tokens |-> 20]] : t \in Texts}

GeminiData ==
    {EmptyObj,
     [candidates |-> <<>>],
     [candidates |-> <<[content |-> EmptyObj]>>],
     [candidates |-> <<[content |-> [parts |-> <<>>]]>>],
     [candidates |-> <<[content |-> [parts |-> <<[text |-> None]>>]]>>]}
    \cup {[candidates |-> <<[content |-> [parts |-> <<[text |-> t]>>]]>>] : t \in Texts}
    \cup {[candidates |-> <<[content |-> [parts |-> <<[text |-> t]>>]]>>,
           usageMetadata |-> [totalTokenCount |-> 20]] : t \in Texts}

SnowflakeData ==
    {EmptyObj,
     [data |-> <<>>],
     [data |-> <<EmptyObj>>],
     [data |-> <<[response |-> None]>>]}
    \cup {[data |-> <<[response |-> t]>>] : t \in Texts}

RepliesOver(datas) ==
    TransportFailures
    \cup {HttpReply(s, TRUE, EmptyObj) : s \in ErrorStatuses}
    \cup {HttpReply(s, FALSE, EmptyObj) : s \in SuccessStatuses}
    \cup {HttpReply(s, TRUE, d) : s \in SuccessStatuses, d \in datas}

(***************************************************************************)
(* python_ai_plugin: adapters                                              *)
(***************************************************************************)
Ok(value) == [ok |-> TRUE, value |-> value, exc |-> None]
Exc(name) == [ok |-> FALSE, value |-> EmptyObj, exc |-> name]

ChatResponse(content, provider, model, usage) ==
    IF content = None THEN Exc("ValidationError")
    ELSE Ok([response |-> content, provider |-> provider, model |-> model, usage |-> usage])

\* dict.get(key) with the default None
Get(d, k) == IF k \in DOMAIN d THEN d[k] ELSE None

\* call_openai_api: the credential check
openai_configured == Truthy(settings.openai_api_key)

\* call_openai_api returning a default text for an empty content
openai_parse_defaulted(reply) ==
    IF ~reply.json_ok THEN Exc("JSONDecodeError")
    ELSE LET data == reply.data IN
         IF "choices" \notin DOMAIN data THEN Exc("KeyError")
         ELSE IF Len(data.choices) < 1 THEN Exc("IndexError")
         ELSE IF "message" \notin DOMAIN data.choices[1] THEN Exc("KeyError")
         ELSE IF "content" \notin DOMAIN data.choices[1].message THEN Exc("KeyError")
         ELSE ChatResponse(IF data.choices[1].message.content = ""
                           THEN "No response received"
                           ELSE data.choices[1].message.content,
                           "openai", Get(data, "model"), Get(data, "usage"))

\* call_openai_api: the body of the try block after raise_for_status
openai_parse(reply) ==
    IF ~reply.json_ok THEN Exc("JSONDecodeError")
    ELSE LET data == reply.data IN
         IF "choices" \notin DOMAIN data THEN Exc("KeyError")
         ELSE IF Len(data.choices) < 1 THEN Exc("IndexError")
         ELSE IF "message" \notin DOMAIN data.choices[1] THEN Exc("KeyError")
         ELSE IF "content" \notin DOMAIN data.choices[1].message THEN Exc("KeyError")
         ELSE ChatResponse(data.choices[1].message.content, "openai",
                           Get(data, "model"), Get(data, "usage"))

\* call_gemini_api: the credential check
gemini_configured == Truthy(settings.gemini_api_key)

\* call_gemini_api: the body of the try block after raise_for_status
gemini_parse(reply) ==
    IF ~reply.json_ok THEN Exc("JSONDecodeError")
    ELSE LET data == reply.data IN
         IF "candidates" \notin DOMAIN data THEN Exc("KeyError")
         ELSE IF Len(data.candidates) < 1 THEN Exc("IndexError")
         ELSE IF "content" \notin DOMAIN data.candidates[1] THEN Exc("KeyError")
         ELSE IF "parts" \notin DOMAIN data.candidates[1].content THEN Exc("KeyError")
         ELSE IF Len(data.candidates[1].content.parts) < 1 THEN Exc("IndexError")
         ELSE IF "text" \notin DOMAIN data.candidates[1].content.parts[1] THEN Exc("KeyError")
         ELSE ChatResponse(data.candidates[1].content.parts[1].text, "gemini",
                           "gemini-pro", Get(data, "usageMetadata"))

\* call_snowflake_cortex_api (chat): the credential check
snowflake_chat_configured ==
    all(<<settings.snowflake_account, settings.snowflake_user,
          settings.snowflake_password, settings.snowflake_warehouse,
          settings.snowflake_database, settings.snowflake_schema>>)

\* call_snowflake_cortex_api (chat): the body of the try block after raise_for_status
snowflake_chat_parse(reply) ==
    IF ~reply.json_ok THEN Exc("JSONDecodeError")
    ELSE LET data == reply.data
             rows == IF "data" \in DOMAIN data THEN data.data ELSE <<EmptyObj>>
         IN IF Len(rows) < 1 THEN Exc("IndexError")
            ELSE ChatResponse(IF "response" \in DOMAIN rows[1] THEN rows[1].response
                              ELSE "No response received",
                              "snowflake", "llama2-70b-chat", None)

ChatProviders == {"openai", "gemini", "snowflake"}

ChatAdapterName(p) ==
    CASE p = "openai" -> "call_openai_api"
      [] p = "gemini" -> "call_gemini_api"
      [] p = "snowflake" -> "call_snowflake_cortex_api"

ChatLabel(p) ==
    CASE p = "openai" -> "OpenAI"
      [] p = "gemini" -> "Gemini"
      [] p = "snowflake" -> "Snowflake Cortex"

ChatConfigured(p) ==
    CASE p = "openai" -> openai_configured
      [] p = "gemini" -> gemini_configured
      [] p = "snowflake" -> snowflake_chat_configured

ChatNotConfiguredDetail(p) ==
    CASE p = "openai" -> <<"OpenAI API key not configured">>
      [] p = "gemini" -> <<"Gemini API key not configured">>
      [] p = "snowflake" -> <<"Snowflake Cortex credentials not configured">>

ChatParse(p, reply) ==
    CASE p = "openai" -> openai_parse(reply)
      [] p = "gemini" -> gemini_parse(reply)
      [] p = "snowflake" -> snowflake_chat_parse(reply)

ChatReplies(p) ==
    CASE p = "openai" -> RepliesOver(OpenAIData)
      [] p = "gemini" -> RepliesOver(GeminiData)
      [] p = "snowflake" -> RepliesOver(SnowflakeData)

\* except httpx.HTTPStatusError of the chat adapters
ChatStatusError(p, reply) ==
    HTTPException(HTTP_502_BAD_GATEWAY, <<ChatLabel(p) \o " API error: ", ToString(reply.status)>>)

\* except Exception of the chat adapters answering as call_deepseek_api does
ChatOtherError_internal(p, exc) ==
    HTTPException(HTTP_500_INTERNAL_SERVER_ERROR, <<"Failed to call " \o ChatLabel(p) \o " API: ", exc>>)

\* except Exception of the chat adapters
ChatOtherError(p, exc) ==
    HTTPException(HTTP_502_BAD_GATEWAY, <<"Failed to call " \o ChatLabel(p) \o " API: ", exc>>)

\* the outcome of a chat adapter once the awaited post has returned or raised
ChatOutcome(p, reply) ==
    IF reply.kind = "transport" THEN ChatOtherError(p, reply.exc)
    ELSE IF raise_for_status(reply) THEN ChatStatusError(p, reply)
    ELSE LET r == ChatParse(p, reply) IN
         IF r.ok THEN JSONResponse(r.value) ELSE ChatOtherError(p, r.exc)

(***************************************************************************)
(* python_question_generator: models                                       *)
(***************************************************************************)
MCQ == "mcq"
SHORT_ANSWER == "short_answer"
FILL_IN_BLANKS == "fill_in_blanks"
QuestionType == {MCQ, SHORT_ANSWER, FILL_IN_BLANKS}

num_questions_default == 5
num_questions_ge == 1
num_questions_le == 20

\* MCQOption(**opt)
MCQOption(opt) ==
    IF "option_id" \notin DOMAIN opt \/ "text" \notin DOMAIN opt THEN Exc("ValidationError")
    ELSE IF Len(opt.text) < 1 THEN Exc("ValidationError")
    ELSE Ok([option_id |-> opt.option_id, text |-> opt.text])

\* Question(...): question_text has min_length 1
Question(question_id, question_type, question_text, correct_answer, options, explanation) ==
    IF Len(question_text) < 1 THEN Exc("ValidationError")
    ELSE Ok([question_id |-> question_id, question_type |-> question_type,
             question_text |-> question_text, correct_answer |-> correct_answer,
             options |-> options, explanation |-> explanation])

QuestionGenerationResponse(questions, provider, model, content_length) ==
    [questions |-> questions, provider |-> provider, model |-> model,
     content_length |-> content_length, generation_time |-> None]

(***************************************************************************)
(* python_question_generator: uploaded documents                           *)
(***************************************************************************)
Name(ext) == <<"t", ".">> \o ext

\* an upload: its name, its reported size, whether PyPDF2 can read it, and the
\* text of each page
UploadFile(filename, size, readable, pages) ==
    [filename |-> filename, size |-> size, readable |-> readable, pages |-> pages]

Files ==
    {UploadFile(Name(<<"t", "x", "t">>), 16, FALSE, <<>>),
     UploadFile(Name(<<"t", "x", "t">>), max_file_size + 1, FALSE, <<>>),
     UploadFile(Name(<<"p", "d", "f">>), max_file_size + 1, TRUE, <<<<"a", "b">>>>),
     UploadFile(Name(<<"p", "d", "f">>), 16, FALSE, <<>>),
     UploadFile(Name(<<"p", "d", "f">>), 16, TRUE, <<>>),
     UploadFile(Name(<<"p", "d", "f">>), 16, TRUE, <<<<" ">>>>),
     UploadFile(Name(<<"P", "D", "F">>), 16, TRUE, <<<<"a", "b">>>>),
     UploadFile(Name(<<"p", "d", "f">>), 0, TRUE, <<<<"a">>, <<" ", "b", " ">>>>)}

\* str.lower()
LowerChar(c) ==
    CASE c = "P" -> "p"
      [] c = "D" -> "d"
      [] c = "F" -> "f"
      [] OTHER -> c

lower(s) == [i \in DOMAIN s |-> LowerChar(s[i])]

\* str.endswith(suffix)
endswith(s, suffix) ==
    /\ Len(s) >= Len(suffix)
    /\ SubSeq(s, Len(s) - Len(suffix) + 1, Len(s)) = suffix

\* the loop over pdf_reader.pages: text_content += f"\n{page_text}"
RECURSIVE JoinPages(_)
JoinPages(pages) ==
    IF pages = <<>> THEN <<>>
    ELSE <<"\n">> \o Head(pages) \o JoinPages(Tail(pages))

\* extract_text_from_pdf: the HTTPException raised for an empty text is caught by
\* the function's own except Exception and raised again as a processing failure
extract_text_from_pdf(pdf_file) ==
    IF ~pdf_file.readable
    THEN [ok |-> FALSE, text |-> <<>>,
          error |-> HTTPException(HTTP_400_BAD_REQUEST,
                                  <<"Failed to process PDF file: ", "PdfReadError">>)]
    ELSE LET text_content == strip(JoinPages(pdf_file.pages)) IN
         IF text_content = <<>>
         THEN [ok |-> FALSE, text |-> <<>>,
               error |-> HTTPException(HTTP_400_BAD_REQUEST,
                             <<"Failed to process PDF file: ",
                               "400: No text content could be extracted from the PDF">>)]
         ELSE [ok |-> TRUE, text |-> text_content, error |-> NoResponse]

(***************************************************************************)
(* python_question_generator: placeholder questions and parsing            *)
(***************************************************************************)
\* the options of a placeholder question without the last one
MockOptions_without_d(n) ==
    <<[option_id |-> "A", text |-> "Option A for question " \o ToString(n)],
      [option_id |-> "B", text |-> "Option B for question " \o ToString(n)],
      [option_id |-> "C", text |-> "Option C for question " \o ToString(n)]>>

\* the four options of a placeholder multiple-choice question
MockOptions(n) ==
    <<[option_id |-> "A", text |-> "Option A for question " \o ToString(n)],
      [option_id |-> "B", text |-> "Option B for question " \o ToString(n)],
      [option_id |-> "C", text |-> "Option C for question " \o ToString(n)],
      [option_id |-> "D", text |-> "Option D for question " \o ToString(n)]>>

\* the body of the loop of create_mock_questions, for i + 1 = n
MockQuestion(question_type, n) ==
    IF question_type = MCQ
    THEN Question("q" \o ToString(n), question_type,
                  "Sample multiple choice question " \o ToString(n) \o " based on the content?",
                  "A", MockOptions(n),
                  "This is the explanation for question " \o ToString(n)).value
    ELSE IF question_type = SHORT_ANSWER
    THEN Question("q" \o ToString(n), question_type,
                  "Sample short answer question " \o ToString(n) \o " based on the content?",
                  "Sample answer " \o ToString(n), None,
                  "This is the explanation for question " \o ToString(n)).value
    ELSE Question("q" \o ToString(n), question_type,
                  "Complete this sentence from the content: The main concept is ______.",
                  "concept " \o ToString(n), None,
                  "This is the explanation for question " \o ToString(n)).value

\* create_mock_questions looping over range(1, num_questions)
create_mock_questions_short(question_type, num_questions, content) ==
    [i \in 1..(num_questions - 1) |-> MockQuestion(question_type, i)]

create_mock_questions(question_type, num_questions, content) ==
    [i \in 1..num_questions |-> MockQuestion(question_type, i)]

\* the element turned into a Question with its options kept for every question type
ParseItem_keeps_options(n, q_data, question_type) ==
    IF ~q_data.is_object THEN Exc("AttributeError")
    ELSE LET f == q_data.fields
             raw == IF "options" \in DOMAIN f THEN f.options ELSE <<>>
         IN IF \E k \in DOMAIN raw : ~MCQOption(raw[k]).ok
            THEN Exc("ValidationError")
            ELSE Question(IF "question_id" \in DOMAIN f THEN f.question_id
                          ELSE "q" \o ToString(n),
                          question_type,
                          IF "question_text" \in DOMAIN f THEN f.question_text ELSE "",
                          IF "correct_answer" \in DOMAIN f THEN f.correct_answer ELSE "",
                          [k \in DOMAIN raw |-> MCQOption(raw[k]).value],
                          Get(f, "explanation"))

\* the (i+1)-th element of the parsed JSON array turned into a Question
ParseItem(n, q_data, question_type) ==
    IF ~q_data.is_object THEN Exc("AttributeError")
    ELSE LET f == q_data.fields
             raw == IF "options" \in DOMAIN f THEN f.options ELSE <<>>
         IN IF question_type = MCQ /\ \E k \in DOMAIN raw : ~MCQOption(raw[k]).ok
            THEN Exc("ValidationError")
            ELSE Question(IF "question_id" \in DOMAIN f THEN f.question_id
                          ELSE "q" \o ToString(n),
                          question_type,
                          IF "question_text" \in DOMAIN f THEN f.question_text ELSE "",
                          IF "correct_answer" \in DOMAIN f THEN f.correct_answer ELSE "",
                          IF question_type = MCQ
                          THEN [k \in DOMAIN raw |-> MCQOption(raw[k]).value]
                          ELSE None,
                          Get(f, "explanation"))

\* the number of placeholder questions parse_ai_response falls back to
fallback_num_questions == 3

\* parse_ai_response: response_text is the upstream text, kept as what the regular
\* expression and json.loads make of it
parse_ai_response(response_text, question_type) ==
    IF /\ response_text.kind = "array"
       /\ \A i \in DOMAIN response_text.items :
              ParseItem(i, response_text.items[i], question_type).ok
    THEN [i \in DOMAIN response_text.items |->
              ParseItem(i, response_text.items[i], question_type).value]
    ELSE create_mock_questions(question_type, fallback_num_questions,
                               "Content parsing failed")

\* create_question_generation_prompt, as the values interpolated into the template
create_question_generation_prompt(content, question_type, num_questions, difficulty) ==
    <<num_questions, difficulty, question_type, content>>

(***************************************************************************)
(* python_question_generator: upstream replies                             *)
(***************************************************************************)
Obj(fields) == [is_object |-> TRUE, fields |-> fields]

\* elements the upstream may put in its JSON array
Items ==
    {Obj([question_id |-> "q1", question_text |-> "What?", correct_answer |-> "A",
          options |-> <<[option_id |-> "A", text |-> "x"], [option_id |-> "B", text |-> "y"],
                        [option_id |-> "C", text |-> "z"], [option_id |-> "D", text |-> "w"]>>,
          explanation |-> "Because"]),
     Obj([question_text |-> "Why?", correct_answer |-> "x"]),
     Obj([question_id |-> "q9", question_text |-> "", correct_answer |-> "x"]),
     Obj([question_id |-> "q7", question_text |-> "How?", correct_answer |-> "B",
          options |-> <<[option_id |-> "A"]>>]),
     [is_object |-> FALSE, fields |-> EmptyObj]}

\* what the upstream puts in choices[0].message.content: null, a text without a
\* bracketed part, a bracketed part that is not JSON, or a JSON array
UpstreamTexts ==
    {[kind |-> k, items |-> <<>>] : k \in {"null", "prose", "broken"}}
    \cup {[kind |-> "array", items |-> it] : it \in SeqsUpTo(Items, MaxItems)}

\* what surrounds the main part of an upstream text: nothing, words, or words with
\* a bracketed remark such as "[sic]"
Fragments == {"", "prose", "bracketed"}

\* an upstream text before the regular expression is applied: a main part, which
\* is one of UpstreamTexts, with a fragment before it and one after it
RawTexts ==
    {[before |-> b, main |-> m, after |-> a] :
        b \in Fragments, m \in UpstreamTexts, a \in Fragments}

\* re.search(r'\[.*\]', response_text, re.DOTALL) and json.loads of the match:
\* the match runs from the first "[" of the text to its last "]", so a bracket in
\* a fragment puts text that is not JSON into the match
re_search_json(raw) ==
    IF raw.main.kind = "null" THEN raw.main
    ELSE IF raw.before = "bracketed" \/ raw.after = "bracketed"
    THEN [kind |-> "broken", items |-> <<>>]
    ELSE raw.main

DeepSeekData ==
    {EmptyObj,
     [choices |-> <<>>],
     [choices |-> <<[message |-> EmptyObj]>>]}
    \cup {[choices |-> <<[message |-> [content |-> t]]>>] : t \in UpstreamTexts}

(***************************************************************************)
(* python_question_generator: adapters                                     *)
(***************************************************************************)
\* call_deepseek_api: the credential check
deepseek_configured == Truthy(settings.deepseek_api_key)

\* call_deepseek_api labelling its response with the provider of the API it imitates
deepseek_parse_as_openai(reply, content, question_type) ==
    IF ~reply.json_ok THEN Exc("JSONDecodeError")
    ELSE LET data == reply.data IN
         IF "choices" \notin DOMAIN data THEN Exc("KeyError")
         ELSE IF Len(data.choices) < 1 THEN Exc("IndexError")
         ELSE IF "message" \notin DOMAIN data.choices[1] THEN Exc("KeyError")
         ELSE IF "content" \notin DOMAIN data.choices[1].message THEN Exc("KeyError")
         ELSE Ok(QuestionGenerationResponse(
                     parse_ai_response(data.choices[1].message.content, question_type),
                     "openai", "deepseek-chat", Len(content)))

\* call_deepseek_api: the body of the try block after raise_for_status
deepseek_parse(reply, content, question_type) ==
    IF ~reply.json_ok THEN Exc("JSONDecodeError")
    ELSE LET data == reply.data IN
         IF "choices" \notin DOMAIN data THEN Exc("KeyError")
         ELSE IF Len(data.choices) < 1 THEN Exc("IndexError")
         ELSE IF "message" \notin DOMAIN data.choices[1] THEN Exc("KeyError")
         ELSE IF "content" \notin DOMAIN data.choices[1].message THEN Exc("KeyError")
         ELSE Ok(QuestionGenerationResponse(
                     parse_ai_response(data.choices[1].message.content, question_type),
                     "deepseek", "deepseek-chat", Len(content)))

\* the HTTPStatusError handler of call_deepseek_api answering like its generic handler
DeepSeekStatusError_generic(reply) ==
    HTTPException(500, <<"Failed to generate questions using DeepSeek API">>)

\* except httpx.HTTPStatusError of call_deepseek_api
DeepSeekStatusError(reply) ==
    HTTPException(HTTP_502_BAD_GATEWAY, <<"DeepSeek API error: ", ToString(reply.status)>>)

\* except Exception of call_deepseek_api
DeepSeekOtherError(exc) ==
    HTTPException(HTTP_500_INTERNAL_SERVER_ERROR,
                  <<"Failed to generate questions using DeepSeek API">>)

\* the outcome of call_deepseek_api once the awaited post has returned or raised
DeepSeekOutcome(reply, content, question_type) ==
    IF reply.kind = "transport" THEN DeepSeekOtherError(reply.exc)
    ELSE IF raise_for_status(reply) THEN DeepSeekStatusError(reply)
    ELSE LET r == deepseek_parse(reply, content, question_type) IN
         IF r.ok THEN JSONResponse(r.value) ELSE DeepSeekOtherError(r.exc)

\* call_snowflake_cortex_api (question generation): the credential check
snowflake_qg_configured ==
    all(<<settings.snowflake_account, settings.snowflake_user, settings.snowflake_password>>)

\* call_snowflake_cortex_api reporting the number of questions as content_length
snowflake_generate_counting_questions(content, question_type, num_questions, difficulty) ==
    IF ~snowflake_qg_configured
    THEN HTTPException(HTTP_503_SERVICE_UNAVAILABLE, <<"Snowflake credentials not configured">>)
    ELSE JSONResponse(QuestionGenerationResponse(
                          create_mock_questions(question_type, num_questions, content),
                          "snowflake", "cortex-ai", num_questions))

\* call_snowflake_cortex_api (question generation): no outbound call is made, the
\* questions are placeholders
snowflake_generate(content, question_type, num_questions, difficulty) ==
    IF ~snowflake_qg_configured
    THEN HTTPException(HTTP_503_SERVICE_UNAVAILABLE, <<"Snowflake credentials not configured">>)
    ELSE JSONResponse(QuestionGenerationResponse(
                          create_mock_questions(question_type, num_questions, content),
                          "snowflake", "cortex-ai", Len(content)))

(***************************************************************************)
(* Availability and health                                                 *)
(***************************************************************************)
\* check_provider_availability of python_ai_plugin
check_provider_availability_chat ==
    [openai |-> Truthy(settings.openai_api_key),
     gemini |-> Truthy(settings.gemini_api_key),
     snowflake |-> all(<<settings.snowflake_account, settings.snowflake_user,
                         settings.snowflake_password, settings.snowflake_warehouse,
                         settings.snowflake_database, settings.snowflake_schema>>)]

\* check_provider_availability looking at the three fields the adapter looks at
check_provider_availability_qg_as_adapter ==
    [deepseek |-> Truthy(settings.deepseek_api_key),
     snowflake |-> all(<<settings.snowflake_account, settings.snowflake_user,
                         settings.snowflake_password>>)]

\* check_provider_availability of python_question_generator
check_provider_availability_qg ==
    [deepseek |-> Truthy(settings.deepseek_api_key),
     snowflake |-> all(<<settings.snowflake_account, settings.snowflake_user,
                         settings.snowflake_password, settings.snowflake_warehouse,
                         settings.snowflake_database, settings.snowflake_schema>>)]

check_provider_availability ==
    IF service = "ai_plugin" THEN check_provider_availability_chat
    ELSE check_provider_availability_qg

HealthResponse(status, version, providers) ==
    [status |-> status, version |-> version, providers |-> providers]

\* a response of the router, rendered by the framework's own handler
NotFound == [status |-> 404, body |-> [detail |-> <<"Not Found">>]]

(***************************************************************************)
(* Application lifespan                                                    *)
(***************************************************************************)
Idle ==
    /\ pc = "idle"
    /\ req = EmptyObj
    /\ adapter = None
    /\ adapter_args = EmptyObj
    /\ outbound_calls = 0
    /\ upstream = EmptyObj
    /\ response = NoResponse
    /\ steps = <<>>

\* lifespan, up to the yield
Startup ==
    /\ phase = "starting"
    /\ phase' = "running"
    /\ http_client' = "open"
    /\ UNCHANGED <<service, settings, pc, req, adapter, adapter_args,
                   outbound_calls, upstream, response, steps>>

\* lifespan, after the yield, with the client left open
Shutdown_without_aclose ==
    /\ phase = "running"
    /\ pc = "idle"
    /\ phase' = "stopped"
    /\ UNCHANGED <<service, settings, http_client, pc, req, adapter, adapter_args,
                   outbound_calls, upstream, response, steps>>

\* lifespan, after the yield: the server has finished the requests in flight
Shutdown ==
    /\ phase = "running"
    /\ pc = "idle"
    /\ phase' = "stopped"
    /\ http_client' = IF http_client # None THEN "closed" ELSE http_client
    /\ UNCHANGED <<service, settings, pc, req, adapter, adapter_args,
                   outbound_calls, upstream, response, steps>>

(***************************************************************************)
(* python_ai_plugin: endpoints                                             *)
(***************************************************************************)
\* the request is answered without awaiting anything
Answer(r) ==
    /\ pc' = "done"
    /\ response' = r
    /\ UNCHANGED <<outbound_calls, upstream>>

\* chat_openai / chat_gemini / chat_snowflake up to the await of http_client.post
ChatEndpoint(p, body) ==
    /\ service = "ai_plugin"
    /\ phase = "running"
    /\ pc = "idle"
    /\ req' = [endpoint |-> "/chat/" \o p, provider |-> p, body |-> body]
    /\ LET v == ChatRequest(body) IN
       IF ~v.ok
       THEN /\ steps' = <<"validate">>
            /\ adapter' = None
            /\ adapter_args' = EmptyObj
            /\ Answer(RequestValidationError("prompt"))
       ELSE /\ adapter' = ChatAdapterName(p)
            /\ adapter_args' = [prompt |-> v.prompt]
            /\ IF ~ChatConfigured(p)
               THEN /\ steps' = <<"validate", "credentials">>
                    /\ Answer(HTTPException(HTTP_503_SERVICE_UNAVAILABLE,
                                            ChatNotConfiguredDetail(p)))
               ELSE IF http_client # "open"
               THEN /\ steps' = <<"validate", "credentials">>
                    /\ Answer(ChatOtherError(p, IF http_client = None
                                                THEN "AttributeError" ELSE "RuntimeError"))
               ELSE /\ steps' = <<"validate", "credentials", "post">>
                    /\ pc' = "awaiting"
                    /\ outbound_calls' = outbound_calls + 1
                    /\ UNCHANGED <<upstream, response>>
    /\ UNCHANGED <<service, settings, phase, http_client>>

chat_openai(body) == ChatEndpoint("openai", body)

chat_gemini(body) == ChatEndpoint("gemini", body)

chat_snowflake(body) == ChatEndpoint("snowflake", body)

\* a chat adapter resumes after the await and the endpoint returns or re-raises
ChatResume(p, reply) ==
    /\ service = "ai_plugin"
    /\ pc = "awaiting"
    /\ req.provider = p
    /\ upstream' = reply
    /\ response' = ChatOutcome(p, reply)
    /\ pc' = "done"
    /\ steps' = Append(steps, "reply")
    /\ UNCHANGED <<service, settings, phase, http_client, req, adapter,
                   adapter_args, outbound_calls>>

call_openai_api(reply) == ChatResume("openai", reply)

call_gemini_api(reply) == ChatResume("gemini", reply)

call_snowflake_cortex_api(reply) == ChatResume("snowflake", reply)

(***************************************************************************)
(* python_question_generator: endpoints                                    *)
(***************************************************************************)
Opt(key, values) == {EmptyObj} \cup {key :> v : v \in values}

\* multipart forms a client posts to /generate-questions/{provider}
Forms ==
    {f @@ t @@ q @@ n :
        f \in Opt("file", Files),
        t \in Opt("text_content", {"Short", "Some text content"}),
        q \in {"question_type" :> v : v \in QuestionType \cup {"essay"}},
        n \in Opt("num_questions", {0, 3, 21})}

\* the declared parameters with the limits of num_questions left out
FormValid_unbounded(form) ==
    /\ "file" \in DOMAIN form
    /\ "question_type" \in DOMAIN form
    /\ form.question_type \in QuestionType

\* the declared parameters of generate_questions_deepseek and
\* generate_questions_snowflake: file is required, question_type is a QuestionType,
\* num_questions is within its limits; a field that is not declared is ignored
FormValid(form) ==
    /\ "file" \in DOMAIN form
    /\ "question_type" \in DOMAIN form
    /\ form.question_type \in QuestionType
    /\ "num_questions" \in DOMAIN form =>
           /\ form.num_questions >= num_questions_ge
           /\ form.num_questions <= num_questions_le

FormNum(form) ==
    IF "num_questions" \in DOMAIN form THEN form.num_questions ELSE num_questions_default

difficulty_default == "medium"

\* the checks before the adapter with the size compared before the file type
BeforeAdapter_size_first(form) ==
    IF ~FormValid(form)
    THEN [steps |-> <<"validate">>, text |-> <<>>,
          error |-> RequestValidationError("body")]
    ELSE IF form.file.size # 0 /\ form.file.size > max_file_size
    THEN [steps |-> <<"validate", "file_size">>, text |-> <<>>,
          error |-> HTTPException(HTTP_413_REQUEST_ENTITY_TOO_LARGE,
                        <<"File size exceeds maximum limit of ",
                          ToString(max_file_size), " bytes">>)]
    ELSE IF ~endswith(lower(form.file.filename), <<".", "p", "d", "f">>)
    THEN [steps |-> <<"validate", "file_size", "file_type">>, text |-> <<>>,
          error |-> HTTPException(HTTP_400_BAD_REQUEST, <<"Only PDF files are supported">>)]
    ELSE LET e == extract_text_from_pdf(form.file) IN
         [steps |-> <<"validate", "file_size", "file_type", "extract">>,
          text |-> e.text, error |-> e.error]

\* the checks of the two endpoints before the adapter is called: the response
\* that ends the request there, or NoResponse with the extracted text
BeforeAdapter(form) ==
    IF ~FormValid(form)
    THEN [steps |-> <<"validate">>, text |-> <<>>,
          error |-> RequestValidationError("body")]
    ELSE IF ~endswith(lower(form.file.filename), <<".", "p", "d", "f">>)
    THEN [steps |-> <<"validate", "file_type">>, text |-> <<>>,
          error |-> HTTPException(HTTP_400_BAD_REQUEST, <<"Only PDF files are supported">>)]
    ELSE IF form.file.size # 0 /\ form.file.size > max_file_size
    THEN [steps |-> <<"validate", "file_type", "file_size">>, text |-> <<>>,
          error |-> HTTPException(HTTP_413_REQUEST_ENTITY_TOO_LARGE,
                        <<"File size exceeds maximum limit of ",
                          ToString(max_file_size), " bytes">>)]
    ELSE LET e == extract_text_from_pdf(form.file) IN
         [steps |-> <<"validate", "file_type", "file_size", "extract">>,
          text |-> e.text, error |-> e.error]

\* generate_questions_deepseek testing the API key before it extracts the text
generate_questions_deepseek_credentials_first(form) ==
    /\ service = "question_generator"
    /\ phase = "running"
    /\ pc = "idle"
    /\ req' = [endpoint |-> "/generate-questions/deepseek", provider |-> "deepseek",
               body |-> form]
    /\ LET b == BeforeAdapter(form) IN
       IF b.error # NoResponse /\ (Len(b.steps) < 4 \/ deepseek_configured)
       THEN /\ steps' = b.steps
            /\ adapter' = None
            /\ adapter_args' = EmptyObj
            /\ Answer(b.error)
       ELSE /\ adapter' = "call_deepseek_api"
            /\ adapter_args' = [content |-> b.text, question_type |-> form.question_type,
                                num_questions |-> FormNum(form),
                                difficulty |-> difficulty_default]
            /\ IF ~deepseek_configured
               THEN /\ steps' = <<"validate", "file_type", "file_size", "credentials">>
                    /\ Answer(HTTPException(HTTP_503_SERVICE_UNAVAILABLE,
                                            <<"DeepSeek API key not configured">>))
               ELSE /\ steps' = b.steps \o <<"credentials", "post">>
                    /\ pc' = "awaiting"
                    /\ outbound_calls' = outbound_calls + 1
                    /\ UNCHANGED <<upstream, response>>
    /\ UNCHANGED <<service, settings, phase, http_client>>

\* generate_questions_deepseek with call_deepseek_api up to the await of
\* http_client.post
generate_questions_deepseek(form) ==
    /\ service = "question_generator"
    /\ phase = "running"
    /\ pc = "idle"
    /\ req' = [endpoint |-> "/generate-questions/deepseek", provider |-> "deepseek",
               body |-> form]
    /\ LET b == BeforeAdapter(form) IN
       IF b.error # NoResponse
       THEN /\ steps' = b.steps
            /\ adapter' = None
            /\ adapter_args' = EmptyObj
            /\ Answer(b.error)
       ELSE /\ adapter' = "call_deepseek_api"
            /\ adapter_args' = [content |-> b.text, question_type |-> form.question_type,
                                num_questions |-> FormNum(form),
                                difficulty |-> difficulty_default]
            /\ IF ~deepseek_configured
               THEN /\ steps' = Append(b.steps, "credentials")
                    /\ Answer(HTTPException(HTTP_503_SERVICE_UNAVAILABLE,
                                            <<"DeepSeek API key not configured">>))
               ELSE IF http_client # "open"
               THEN /\ steps' = Append(b.steps, "credentials")
                    /\ Answer(DeepSeekOtherError(IF http_client = None
                                                 THEN "AttributeError" ELSE "RuntimeError"))
               ELSE /\ steps' = b.steps \o <<"credentials", "post">>
                    /\ pc' = "awaiting"
                    /\ outbound_calls' = outbound_calls + 1
                    /\ UNCHANGED <<upstream, response>>
    /\ UNCHANGED <<service, settings, phase, http_client>>

\* call_deepseek_api resumes after the await and the endpoint returns or re-raises
call_deepseek_api(reply) ==
    /\ service = "question_generator"
    /\ pc = "awaiting"
    /\ req.provider = "deepseek"
    /\ upstream' = reply
    /\ response' = DeepSeekOutcome(reply, adapter_args.content, adapter_args.question_type)
    /\ pc' = "done"
    /\ steps' = Append(steps, "reply")
    /\ UNCHANGED <<service, settings, phase, http_client, req, adapter,
                   adapter_args, outbound_calls>>

\* generate_questions_snowflake with call_snowflake_cortex_api, which awaits nothing
generate_questions_snowflake(form) ==
    /\ service = "question_generator"
    /\ phase = "running"
    /\ pc = "idle"
    /\ req' = [endpoint |-> "/generate-questions/snowflake", provider |-> "snowflake",
               body |-> form]
    /\ LET b == BeforeAdapter(form) IN
       IF b.error # NoResponse
       THEN /\ steps' = b.steps
            /\ adapter' = None
            /\ adapter_args' = EmptyObj
            /\ Answer(b.error)
       ELSE /\ adapter' = "call_snowflake_cortex_api"
            /\ adapter_args' = [content |-> b.text, question_type |-> form.question_type,
                                num_questions |-> FormNum(form),
                                difficulty |-> difficulty_default]
            /\ steps' = Append(b.steps, "credentials")
            /\ Answer(snowflake_generate(b.text, form.question_type, FormNum(form),
                                         difficulty_default))
    /\ UNCHANGED <<service, settings, phase, http_client>>

\* health_check of either service
health_check ==
    /\ phase = "running"
    /\ pc = "idle"
    /\ req' = [endpoint |-> "/health", provider |-> None, body |-> EmptyObj]
    /\ steps' = <<"availability">>
    /\ adapter' = None
    /\ adapter_args' = EmptyObj
    /\ Answer(JSONResponse(HealthResponse("ok", "1.0.0", check_provider_availability)))
    /\ UNCHANGED <<service, settings, phase, http_client>>

\* JSON bodies a client posts to /generate-questions/deepseek/json
JSONBodies ==
    {[content |-> c, question_type |-> "mcq", num_questions |-> 1, difficulty |-> "medium"] :
        c \in {"Short", "This is sample educational content"}}

\* the routes python_question_generator registers for POST
PostRoutes == {"/generate-questions/deepseek", "/generate-questions/snowflake"}

\* a POST to a path the application registers no route for
post_unrouted(path, body) ==
    /\ service = "question_generator"
    /\ phase = "running"
    /\ pc = "idle"
    /\ path \notin PostRoutes
    /\ req' = [endpoint |-> path, provider |-> None, body |-> body]
    /\ steps' = <<"route">>
    /\ adapter' = None
    /\ adapter_args' = EmptyObj
    /\ Answer(NotFound)
    /\ UNCHANGED <<service, settings, phase, http_client>>

\* the response is sent and the request's objects are discarded
Deliver ==
    /\ pc = "done"
    /\ pc' = "idle"
    /\ req' = EmptyObj
    /\ adapter' = None
    /\ adapter_args' = EmptyObj
    /\ outbound_calls' = 0
    /\ upstream' = EmptyObj
    /\ response' = NoResponse
    /\ steps' = <<>>
    /\ UNCHANGED <<service, settings, phase, http_client>>

(***************************************************************************)
(* Endpoints run with the awaited function replaced by a stand-in, as the  *)
(* repositories' tests do with patch('app.call_deepseek_api'): the stand-in *)
(* returns a value or raises                                               *)
(***************************************************************************)
Returned(value) == [kind |-> "return", value |-> value]

Raised(exc) == [kind |-> "raise", exc |-> exc]

\* the exceptions a stand-in raises
StandInExceptions ==
    {[type |-> "HTTPException", status_code |-> sc, detail |-> <<"stand-in">>] :
        sc \in {HTTP_400_BAD_REQUEST, HTTP_502_BAD_GATEWAY, HTTP_503_SERVICE_UNAVAILABLE}}
    \cup {[type |-> t] : t \in {"Exception", "ValueError"}}

StandInOutcomes(values) ==
    {Returned(v) : v \in values} \cup {Raised(e) : e \in StandInExceptions}

\* the try statement of an endpoint with every exception answered 500
EndpointTry_catch_all(outcome, detail) ==
    IF outcome.kind = "return" THEN JSONResponse(outcome.value)
    ELSE HTTPException(HTTP_500_INTERNAL_SERVER_ERROR, detail)

\* the try statement of an endpoint: return the value; except HTTPException: raise;
\* except Exception: raise HTTPException(500, detail)
EndpointTry(outcome, detail) ==
    IF outcome.kind = "return" THEN JSONResponse(outcome.value)
    ELSE IF outcome.exc.type = "HTTPException"
    THEN HTTPException(outcome.exc.status_code, outcome.exc.detail)
    ELSE HTTPException(HTTP_500_INTERNAL_SERVER_ERROR, detail)

\* chat_openai / chat_gemini / chat_snowflake around a stand-in for the adapter
chat_patched(p, body, outcome) ==
    /\ service = "ai_plugin"
    /\ phase = "running"
    /\ pc = "idle"
    /\ ChatRequest(body).ok
    /\ req' = [endpoint |-> "/chat/" \o p, provider |-> p, body |-> body]
    /\ adapter' = ChatAdapterName(p)
    /\ adapter_args' = [prompt |-> ChatRequest(body).prompt]
    /\ steps' = <<"validate", "call">>
    /\ upstream' = outcome @@ [of |-> ChatAdapterName(p)]
    /\ response' = EndpointTry(outcome, <<"Internal server error">>)
    /\ pc' = "done"
    /\ UNCHANGED <<service, settings, phase, http_client, outbound_calls>>

\* the values a stand-in for a chat adapter returns
ChatStandInValues(p) ==
    {[response |-> "Hi there", provider |-> p, model |-> None, usage |-> None]}

\* generate_questions_deepseek / generate_questions_snowflake around stand-ins for
\* extract_text_from_pdf and for the adapter
generate_patched(p, form, extraction, outcome) ==
    /\ service = "question_generator"
    /\ phase = "running"
    /\ pc = "idle"
    /\ FormValid(form)
    /\ endswith(lower(form.file.filename), <<".", "p", "d", "f">>)
    /\ ~(form.file.size # 0 /\ form.file.size > max_file_size)
    /\ req' = [endpoint |-> "/generate-questions/" \o p, provider |-> p, body |-> form]
    /\ IF extraction.kind = "raise"
       THEN /\ adapter' = None
            /\ adapter_args' = EmptyObj
            /\ steps' = <<"validate", "file_type", "file_size", "extract">>
            /\ upstream' = extraction @@ [of |-> "extract_text_from_pdf"]
            /\ response' = EndpointTry(extraction,
                               <<"Internal server error during question generation">>)
       ELSE /\ adapter' = (IF p = "deepseek" THEN "call_deepseek_api"
                           ELSE "call_snowflake_cortex_api")
            /\ adapter_args' = [content |-> extraction.value,
                                question_type |-> form.question_type,
                                num_questions |-> FormNum(form),
                                difficulty |-> difficulty_default]
            /\ steps' = <<"validate", "file_type", "file_size", "extract", "call">>
            /\ upstream' = outcome @@ [of |-> adapter']
            /\ response' = EndpointTry(outcome,
                               <<"Internal server error during question generation">>)
    /\ pc' = "done"
    /\ UNCHANGED <<service, settings, phase, http_client, outbound_calls>>

\* the forms posted to the endpoints around stand-ins: a PDF upload, as in
\* test_api_call_error and test_pdf_extraction_error
StandInForms ==
    {[file |-> UploadFile(Name(<<"p", "d", "f">>), 0, TRUE, <<<<"a">>>>),
      question_type |-> q] : q \in QuestionType}

\* the values a stand-in for an adapter of python_question_generator returns
QGStandInValues(p) ==
    {QuestionGenerationResponse(create_mock_questions(MCQ, 1, <<"a">>), p, "test-model", 1)}

(***************************************************************************)
(* Specification                                                           *)
(***************************************************************************)
Init ==
    /\ service \in {"ai_plugin", "question_generator"}
    /\ settings \in (IF service = "ai_plugin" THEN ChatSettings ELSE QGSettings)
    /\ phase = "starting"
    /\ http_client = None
    /\ Idle

Next ==
    \/ Startup
    \/ Shutdown
    \/ \E body \in ChatBodies : chat_openai(body)
    \/ \E body \in ChatBodies : chat_gemini(body)
    \/ \E body \in ChatBodies : chat_snowflake(body)
    \/ \E reply \in ChatReplies("openai") : call_openai_api(reply)
    \/ \E reply \in ChatReplies("gemini") : call_gemini_api(reply)
    \/ \E reply \in ChatReplies("snowflake") : call_snowflake_cortex_api(reply)
    \/ \E form \in Forms : generate_questions_deepseek(form)
    \/ \E reply \in RepliesOver(DeepSeekData) : call_deepseek_api(reply)
    \/ \E form \in Forms : generate_questions_snowflake(form)
    \/ health_check
    \/ \E body \in JSONBodies : post_unrouted("/generate-questions/deepseek/json", body)
    \/ Deliver

Spec == Init /\ [][Next]_vars

\* the awaited post with no deadline: no TimeoutException is ever raised
deadline_never == FALSE /\ UNCHANGED vars

\* httpx.AsyncClient(timeout=30.0): an awaited post that got no answer within the
\* timeout raises TimeoutException into the adapter
deadline_expires ==
    LET timeout == [kind |-> "transport", exc |-> "TimeoutException"] IN
    \/ call_openai_api(timeout)
    \/ call_gemini_api(timeout)
    \/ call_snowflake_cortex_api(timeout)
    \/ call_deepseek_api(timeout)

\* the event loop runs the timeout of every awaited post
SpecFair == Spec /\ WF_vars(deadline_expires)

\* python_ai_plugin whose lifespan has not run: TestClient(app) used outside a with
\* block calls the endpoints while http_client is still None
InitNoLifespan ==
    /\ service = "ai_plugin"
    /\ settings \in ChatSettings
    /\ phase = "running"
    /\ http_client = None
    /\ Idle

\* python_ai_plugin, started by its server or called without its lifespan
InitChat ==
    \/ Init /\ service = "ai_plugin"
    \/ InitNoLifespan

NextChat ==
    \/ Startup
    \/ Shutdown
    \/ \E body \in ChatBodies : chat_openai(body)
    \/ \E body \in ChatBodies : chat_gemini(body)
    \/ \E body \in ChatBodies : chat_snowflake(body)
    \/ \E reply \in ChatReplies("openai") : call_openai_api(reply)
    \/ \E reply \in ChatReplies("gemini") : call_gemini_api(reply)
    \/ \E reply \in ChatReplies("snowflake") : call_snowflake_cortex_api(reply)
    \/ health_check
    \/ Deliver

SpecChat == InitChat /\ [][NextChat]_vars

\* python_ai_plugin with its API keys set, asked with prompts up to the length limit
InitPrompts ==
    /\ Init
    /\ service = "ai_plugin"
    /\ settings.openai_api_key = "key"
    /\ settings.gemini_api_key = "key"

NextPrompts ==
    \/ Startup
    \/ Shutdown
    \/ \E body \in ChatBodies \cup LongChatBodies : chat_openai(body)
    \/ \E body \in ChatBodies \cup LongChatBodies : chat_gemini(body)
    \/ \E body \in ChatBodies \cup LongChatBodies : chat_snowflake(body)
    \/ \E reply \in ChatReplies("openai") : call_openai_api(reply)
    \/ \E reply \in ChatReplies("gemini") : call_gemini_api(reply)
    \/ \E reply \in ChatReplies("snowflake") : call_snowflake_cortex_api(reply)
    \/ Deliver

SpecPrompts == InitPrompts /\ [][NextPrompts]_vars

\* parse_ai_response applied to an upstream text
parse(raw, question_type) ==
    /\ pc = "idle"
    /\ adapter' = "parse_ai_response"
    /\ adapter_args' = [response_text |-> raw, question_type |-> question_type]
    /\ steps' = <<"parse">>
    /\ response' = [status |-> 0,
                    body |-> [questions |-> parse_ai_response(re_search_json(raw),
                                                              question_type)]]
    /\ pc' = "done"
    /\ UNCHANGED <<service, settings, phase, http_client, req, outbound_calls, upstream>>

\* call_snowflake_cortex_api of python_question_generator called with its arguments
snowflake_adapter(content, question_type, num_questions) ==
    /\ pc = "idle"
    /\ adapter' = "call_snowflake_cortex_api"
    /\ adapter_args' = [content |-> content, question_type |-> question_type,
                        num_questions |-> num_questions, difficulty |-> difficulty_default]
    /\ steps' = <<"credentials">>
    /\ response' = snowflake_generate(content, question_type, num_questions,
                                      difficulty_default)
    /\ pc' = "done"
    /\ UNCHANGED <<service, settings, phase, http_client, req, outbound_calls, upstream>>

\* python_question_generator with the credentials its adapters test
InitUnits ==
    /\ Init
    /\ service = "question_generator"
    /\ settings.deepseek_api_key = "key"
    /\ settings.snowflake_account = "sf"
    /\ settings.snowflake_user = "sf"
    /\ settings.snowflake_password = "sf"

NextUnits ==
    \/ \E raw \in RawTexts, question_type \in QuestionType : parse(raw, question_type)
    \/ \E question_type \in QuestionType, n \in num_questions_ge..num_questions_le :
           snowflake_adapter(<<"a">>, question_type, n)
    \/ Deliver

\* the functions of python_question_generator applied to their arguments
SpecUnits == InitUnits /\ [][NextUnits]_vars

(***************************************************************************)
(* Requests handled concurrently: every request is a coroutine with its    *)
(* own local variables; settings and http_client are the module's globals  *)
(***************************************************************************)
Slots == 1..MaxRequests

\* the local variables of one request
Local(l_pc, l_adapter, l_args, l_calls, l_response, l_steps) ==
    [pc |-> l_pc, adapter |-> l_adapter, adapter_args |-> l_args,
     outbound_calls |-> l_calls, response |-> l_response, steps |-> l_steps]

\* the requests whose variables a step of request i writes, were they kept in
\* globals of the module
Written_shared(i) == Slots

\* the requests whose variables a step of request i writes: they are locals of
\* the coroutine
Written(i) == {i}

Assign(f, i, value) == [j \in Slots |-> IF j \in Written(i) THEN value ELSE f[j]]

\* a chat endpoint and its adapter up to the await of http_client.post
ChatBegin(p, body) ==
    LET v == ChatRequest(body) IN
    IF ~v.ok
    THEN Local("done", None, EmptyObj, 0, RequestValidationError("prompt"), <<"validate">>)
    ELSE IF ~ChatConfigured(p)
    THEN Local("done", ChatAdapterName(p), [prompt |-> v.prompt], 0,
               HTTPException(HTTP_503_SERVICE_UNAVAILABLE, ChatNotConfiguredDetail(p)),
               <<"validate", "credentials">>)
    ELSE IF http_client # "open"
    THEN Local("done", ChatAdapterName(p), [prompt |-> v.prompt], 0,
               ChatOtherError(p, IF http_client = None
                                 THEN "AttributeError" ELSE "RuntimeError"),
               <<"validate", "credentials">>)
    ELSE Local("awaiting", ChatAdapterName(p), [prompt |-> v.prompt], 1, NoResponse,
               <<"validate", "credentials", "post">>)

\* a question-generation endpoint and its adapter up to the await of
\* http_client.post (call_deepseek_api) or to its return (call_snowflake_cortex_api)
GenerateBegin(p, form) ==
    LET b == BeforeAdapter(form)
        args == [content |-> b.text, question_type |-> form.question_type,
                 num_questions |-> FormNum(form), difficulty |-> difficulty_default]
    IN IF b.error # NoResponse
       THEN Local("done", None, EmptyObj, 0, b.error, b.steps)
       ELSE IF p = "snowflake"
       THEN Local("done", "call_snowflake_cortex_api", args, 0,
                  snowflake_generate(b.text, form.question_type, FormNum(form),
                                     difficulty_default),
                  Append(b.steps, "credentials"))
       ELSE IF ~deepseek_configured
       THEN Local("done", "call_deepseek_api", args, 0,
                  HTTPException(HTTP_503_SERVICE_UNAVAILABLE,
                                <<"DeepSeek API key not configured">>),
                  Append(b.steps, "credentials"))
       ELSE IF http_client # "open"
       THEN Local("done", "call_deepseek_api", args, 0,
                  DeepSeekOtherError(IF http_client = None
                                     THEN "AttributeError" ELSE "RuntimeError"),
                  Append(b.steps, "credentials"))
       ELSE Local("awaiting", "call_deepseek_api", args, 1, NoResponse,
                  b.steps \o <<"credentials", "post">>)

\* request i is accepted by an endpoint and runs to its first await or to its end
begin(i, endpoint, p, body, l) ==
    /\ phase = "running"
    /\ pc[i] = "idle"
    /\ req' = Assign(req, i, [endpoint |-> endpoint, provider |-> p, body |-> body])
    /\ pc' = Assign(pc, i, l.pc)
    /\ adapter' = Assign(adapter, i, l.adapter)
    /\ adapter_args' = Assign(adapter_args, i, l.adapter_args)
    /\ outbound_calls' = Assign(outbound_calls, i, l.outbound_calls)
    /\ response' = Assign(response, i, l.response)
    /\ steps' = Assign(steps, i, l.steps)
    /\ UNCHANGED <<service, settings, phase, http_client, upstream>>

begin_chat(i, p, body) ==
    /\ service = "ai_plugin"
    /\ begin(i, "/chat/" \o p, p, body, ChatBegin(p, body))

begin_generate(i, p, form) ==
    /\ service = "question_generator"
    /\ begin(i, "/generate-questions/" \o p, p, form, GenerateBegin(p, form))

\* the awaited post of request i returns or raises and the request runs to its end
resume(i, p, reply) ==
    /\ pc[i] = "awaiting"
    /\ req[i].provider = p
    /\ upstream' = Assign(upstream, i, reply)
    /\ response' = Assign(response, i,
                          IF service = "ai_plugin"
                          THEN ChatOutcome(p, reply)
                          ELSE DeepSeekOutcome(reply, adapter_args[i].content,
                                               adapter_args[i].question_type))
    /\ pc' = Assign(pc, i, "done")
    /\ steps' = Assign(steps, i, Append(steps[i], "reply"))
    /\ UNCHANGED <<service, settings, phase, http_client, req, adapter,
                   adapter_args, outbound_calls>>

\* the response of request i is sent and its coroutine ends
send(i) ==
    /\ pc[i] = "done"
    /\ pc' = [pc EXCEPT ![i] = "idle"]
    /\ req' = [req EXCEPT ![i] = EmptyObj]
    /\ adapter' = [adapter EXCEPT ![i] = None]
    /\ adapter_args' = [adapter_args EXCEPT ![i] = EmptyObj]
    /\ outbound_calls' = [outbound_calls EXCEPT ![i] = 0]
    /\ upstream' = [upstream EXCEPT ![i] = EmptyObj]
    /\ response' = [response EXCEPT ![i] = NoResponse]
    /\ steps' = [steps EXCEPT ![i] = <<>>]
    /\ UNCHANGED <<service, settings, phase, http_client>>

\* lifespan, after the yield, once every request has ended
shutdown_all ==
    /\ phase = "running"
    /\ \A i \in Slots : pc[i] = "idle"
    /\ phase' = "stopped"
    /\ http_client' = IF http_client # None THEN "closed" ELSE http_client
    /\ UNCHANGED <<service, settings, pc, req, adapter, adapter_args,
                   outbound_calls, upstream, response, steps>>

\* the inputs of the concurrent requests
ConcurrentBodies == {EmptyObj, [prompt |-> <<"a">>]}

\* replies to a concurrent request: no answer in time, an upstream error, or a
\* reply the adapter can use
ConcurrentReplies(p) ==
    {r \in (IF p = "deepseek" THEN RepliesOver(DeepSeekData) ELSE ChatReplies(p)) :
        \/ r.kind = "transport" /\ r.exc = "TimeoutException"
        \/ r.kind = "http" /\ r.status = 500
        \/ /\ r.kind = "http" /\ r.status = 200 /\ r.json_ok
           /\ IF p = "deepseek"
              THEN /\ deepseek_parse(r, <<>>, MCQ).ok
                   /\ r.data.choices[1].message.content.kind \in {"prose", "array"}
                   /\ Len(r.data.choices[1].message.content.items) <= 1
              ELSE ChatParse(p, r).ok}

InitConcurrent ==
    /\ service \in {"ai_plugin", "question_generator"}
    /\ settings \in (IF service = "ai_plugin" THEN ChatSettings ELSE QGSettings)
    /\ \/ \A k \in DOMAIN settings : settings[k] \in {"key", "sf"}
       \/ \A k \in DOMAIN settings : settings[k] = None
    /\ phase = "starting"
    /\ http_client = None
    /\ pc = [i \in Slots |-> "idle"]
    /\ req = [i \in Slots |-> EmptyObj]
    /\ adapter = [i \in Slots |-> None]
    /\ adapter_args = [i \in Slots |-> EmptyObj]
    /\ outbound_calls = [i \in Slots |-> 0]
    /\ upstream = [i \in Slots |-> EmptyObj]
    /\ response = [i \in Slots |-> NoResponse]
    /\ steps = [i \in Slots |-> <<>>]

NextConcurrent ==
    \/ Startup
    \/ shutdown_all
    \/ \E i \in Slots, p \in ChatProviders, body \in ConcurrentBodies : begin_chat(i, p, body)
    \/ \E i \in Slots, p \in {"deepseek", "snowflake"}, form \in StandInForms :
           begin_generate(i, p, form)
    \/ \E i \in Slots, p \in ChatProviders \cup {"deepseek"} :
           \E reply \in ConcurrentReplies(p) : resume(i, p, reply)
    \/ \E i \in Slots : send(i)

SpecConcurrent == InitConcurrent /\ [][NextConcurrent]_vars

\* the endpoints around stand-ins
NextPatched ==
    \/ Startup
    \/ Shutdown
    \/ \E body \in ChatBodies, o \in StandInOutcomes(ChatStandInValues("openai")) :
           chat_patched("openai", body, o)
    \/ \E body \in ChatBodies, o \in StandInOutcomes(ChatStandInValues("gemini")) :
           chat_patched("gemini", body, o)
    \/ \E body \in ChatBodies, o \in StandInOutcomes(ChatStandInValues("snowflake")) :
           chat_patched("snowflake", body, o)
    \/ \E form \in StandInForms, e \in StandInOutcomes({<<"a">>}),
          o \in StandInOutcomes(QGStandInValues("deepseek")) :
           generate_patched("deepseek", form, e, o)
    \/ \E form \in StandInForms, e \in StandInOutcomes({<<"a">>}),
          o \in StandInOutcomes(QGStandInValues("snowflake")) :
           generate_patched("snowflake", form, e, o)
    \/ health_check
    \/ Deliver

SpecPatched == Init /\ [][NextPatched]_vars

TypeOK ==
    /\ phase \in {"starting", "running", "stopped"}
    /\ pc \in {"idle", "awaiting", "done"}
    /\ outbound_calls \in 0..1

(***************************************************************************)
(* Properties                                                              *)
(***************************************************************************)
Requested == pc # "idle"
Answered == pc = "done"
\* the adapter awaited its outbound call and the upstream's reply was handled
Replied == pc = "done" /\ steps # <<>> /\ steps[Len(steps)] = "reply"
Detail == response.body.detail

\* the prompt is absent, empty or made of whitespace only
BlankPrompt(body) ==
    \/ "prompt" \notin DOMAIN body
    \/ \A i \in DOMAIN body.prompt : body.prompt[i] \in {" ", "\n"}

\* C1: on every chat endpoint a request whose prompt is missing, empty or only
\* whitespace is answered 422 and no adapter is invoked, whatever the credentials
C1_BlankPromptRejected ==
    (/\ service = "ai_plugin"
     /\ Requested
     /\ req.endpoint \in {"/chat/openai", "/chat/gemini", "/chat/snowflake"}
     /\ BlankPrompt(req.body))
        => /\ Answered
           /\ response.status = 422
           /\ adapter = None
           /\ outbound_calls = 0

\* a whitespace-only prompt was posted to a configured provider and answered
C1_Witness ==
    /\ service = "ai_plugin"
    /\ Answered
    /\ req.provider = "openai"
    /\ Truthy(settings.openai_api_key)
    /\ "prompt" \in DOMAIN req.body
    /\ req.body.prompt = <<" ", " ">>
    /\ response.status = 422

\* the credential fields a provider requires
RequiredCredentials(provider) ==
    CASE provider = "openai" -> {"openai_api_key"}
      [] provider = "gemini" -> {"gemini_api_key"}
      [] provider = "deepseek" -> {"deepseek_api_key"}
      [] provider = "snowflake" -> SnowflakeFields

CredentialMissing(provider) ==
    \E f \in RequiredCredentials(provider) : settings[f] = None \/ settings[f] = ""

\* C2: an adapter invoked while a credential its provider requires is missing or
\* empty fails with 503 and issues no outbound call
C2_MissingCredentialIs503 ==
    (Requested /\ adapter # None /\ CredentialMissing(req.provider))
        => /\ Answered
           /\ response.status = 503
           /\ outbound_calls = 0

\* C3: a non-2xx upstream status S makes the adapter fail with 502 and a detail
\* that contains S
C3_UpstreamStatusIs502 ==
    (Replied /\ upstream.kind = "http" /\ upstream.status \notin 200..299)
        => /\ response.status = 502
           /\ ToString(upstream.status) \in Range(Detail)

\* the DeepSeek upstream answered 429
C3_Witness ==
    /\ Replied
    /\ req.provider = "deepseek"
    /\ upstream.kind = "http"
    /\ upstream.status = 429
    /\ response.status = 502

\* C4: a transport failure of the outbound call makes the adapter fail with 502,
\* as an upstream HTTP error does
C4_TransportFailureIs502 ==
    (Replied /\ upstream.kind = "transport") => response.status = 502

\* the fields a chat adapter reads from the upstream body are all there
ExpectedFieldsPresent(provider, reply) ==
    /\ reply.json_ok
    /\ CASE provider = "openai" ->
                /\ "choices" \in DOMAIN reply.data
                /\ Len(reply.data.choices) >= 1
                /\ "message" \in DOMAIN reply.data.choices[1]
                /\ "content" \in DOMAIN reply.data.choices[1].message
         [] provider = "gemini" ->
                /\ "candidates" \in DOMAIN reply.data
                /\ Len(reply.data.candidates) >= 1
                /\ "content" \in DOMAIN reply.data.candidates[1]
                /\ "parts" \in DOMAIN reply.data.candidates[1].content
                /\ Len(reply.data.candidates[1].content.parts) >= 1
                /\ "text" \in DOMAIN reply.data.candidates[1].content.parts[1]
         [] provider = "snowflake" ->
                /\ "data" \in DOMAIN reply.data
                /\ Len(reply.data.data) >= 1
                /\ "response" \in DOMAIN reply.data.data[1]

\* C5: a chat adapter whose upstream answers 2xx with a body that lacks the expected
\* fields fails with 502 and never answers with a substituted default text
C5_MissingFieldsIs502 ==
    (/\ service = "ai_plugin"
     /\ Replied
     /\ upstream.kind = "http"
     /\ upstream.status \in 200..299
     /\ ~ExpectedFieldsPresent(req.provider, upstream))
        => response.status = 502

\* the fixed identity of the adapter behind an endpoint
Identity(endpoint) ==
    CASE endpoint = "/chat/openai" -> "openai"
      [] endpoint = "/chat/gemini" -> "gemini"
      [] endpoint = "/chat/snowflake" -> "snowflake"
      [] endpoint = "/generate-questions/deepseek" -> "deepseek"
      [] endpoint = "/generate-questions/snowflake" -> "snowflake"

\* C6: every successful response names the fixed identity of the adapter that
\* produced it
C6_ProviderIsIdentity ==
    (Answered /\ response.status = 200 /\ req.provider # None)
        => response.body.provider = Identity(req.endpoint)

\* DeepSeek answered with a JSON array that parsed into questions
C6_Witness ==
    /\ Replied
    /\ req.endpoint = "/generate-questions/deepseek"
    /\ response.status = 200
    /\ response.body.provider = "deepseek"
    /\ Len(response.body.questions) = 2
    /\ response.body.questions[2].question_id = "q2"

\* C7: the OpenAI adapter returns choices[0].message.content unchanged, with
\* provider "openai"
C7_OpenAIContentUnchanged ==
    (/\ Replied
     /\ req.provider = "openai"
     /\ upstream.kind = "http"
     /\ upstream.status \in 200..299
     /\ ExpectedFieldsPresent("openai", upstream)
     /\ upstream.data.choices[1].message.content # None)
        => /\ response.status = 200
           /\ response.body.response = upstream.data.choices[1].message.content
           /\ response.body.provider = "openai"

\* the upstream said "Hi there" and the client was answered "Hi there"
C7_Witness ==
    /\ Replied
    /\ req.provider = "openai"
    /\ Truthy(settings.openai_api_key)
    /\ upstream.kind = "http"
    /\ ExpectedFieldsPresent("openai", upstream)
    /\ upstream.data.choices[1].message.content = "Hi there"
    /\ response.body.response = "Hi there"
    /\ response.body.provider = "openai"

\* the upstream text is not the expected structured list: no JSON array in it, or
\* an element that is not an object, has no question text or, for a
\* multiple-choice request, has an option without text
Unparsable(text, question_type) ==
    \/ text.kind \in {"prose", "broken"}
    \/ /\ text.kind = "array"
       /\ \E i \in DOMAIN text.items :
            \/ ~text.items[i].is_object
            \/ "question_text" \notin DOMAIN text.items[i].fields
            \/ text.items[i].fields.question_text = ""
            \/ /\ question_type = "mcq"
               /\ "options" \in DOMAIN text.items[i].fields
               /\ \E k \in DOMAIN text.items[i].fields.options :
                      "text" \notin DOMAIN text.items[i].fields.options[k]

\* the question is the n-th placeholder
IsPlaceholder(q, n) ==
    /\ q.question_id = "q" \o ToString(n)
    /\ q.explanation = "This is the explanation for question " \o ToString(n)

UnparsableReply ==
    /\ Replied
    /\ req.provider = "deepseek"
    /\ upstream.kind = "http"
    /\ upstream.status \in 200..299
    /\ upstream.json_ok
    /\ "choices" \in DOMAIN upstream.data
    /\ Len(upstream.data.choices) >= 1
    /\ "message" \in DOMAIN upstream.data.choices[1]
    /\ "content" \in DOMAIN upstream.data.choices[1].message
    /\ Unparsable(upstream.data.choices[1].message.content, adapter_args.question_type)

\* C8: an unparsable DeepSeek text is answered 200 with placeholder questions of
\* the requested type; a multiple-choice request for 3 questions gets exactly 3
\* of them, each with exactly 4 options
C8_UnparsableGivesPlaceholders ==
    UnparsableReply
        => /\ response.status = 200
           /\ Len(response.body.questions) >= 1
           /\ \A i \in DOMAIN response.body.questions :
                /\ IsPlaceholder(response.body.questions[i], i)
                /\ response.body.questions[i].question_type = req.body.question_type
           /\ (req.body.question_type = "mcq" /\ adapter_args.num_questions = 3)
                => /\ Len(response.body.questions) = 3
                   /\ \A i \in DOMAIN response.body.questions :
                        Len(response.body.questions[i].options) = 4

\* a multiple-choice request for 3 questions met a bracketed text that is not JSON
C8_Witness ==
    /\ UnparsableReply
    /\ req.body.question_type = "mcq"
    /\ "num_questions" \in DOMAIN req.body
    /\ req.body.num_questions = 3
    /\ upstream.data.choices[1].message.content.kind = "broken"
    /\ response.status = 200
    /\ Len(response.body.questions) = 3

\* the form is acceptable but for the document and the inline text
OtherFieldsValid(form) ==
    /\ form.question_type \in {"mcq", "short_answer", "fill_in_blanks"}
    /\ "num_questions" \in DOMAIN form => form.num_questions \in 1..20

\* C9: a question-generation request with both a document and inline text is
\* answered 400 "Please provide either a PDF file or text content, not both",
\* before any text extraction or adapter call
C9_BothInputsIs400 ==
    (/\ service = "question_generator"
     /\ Requested
     /\ req.endpoint \in {"/generate-questions/deepseek", "/generate-questions/snowflake"}
     /\ OtherFieldsValid(req.body)
     /\ "file" \in DOMAIN req.body
     /\ "text_content" \in DOMAIN req.body)
        => /\ Answered
           /\ response.status = 400
           /\ Detail = <<"Please provide either a PDF file or text content, not both">>
           /\ "extract" \notin Range(steps)
           /\ adapter = None

\* C10: a question-generation request with neither a document nor inline text is
\* answered 400 "Either a PDF file or text content must be provided" and no
\* adapter is called
C10_NoInputIs400 ==
    (/\ service = "question_generator"
     /\ Requested
     /\ req.endpoint \in {"/generate-questions/deepseek", "/generate-questions/snowflake"}
     /\ OtherFieldsValid(req.body)
     /\ "file" \notin DOMAIN req.body
     /\ "text_content" \notin DOMAIN req.body)
        => /\ Answered
           /\ response.status = 400
           /\ Detail = <<"Either a PDF file or text content must be provided">>
           /\ adapter = None

GenerateEndpoints == {"/generate-questions/deepseek", "/generate-questions/snowflake"}

\* C11: /generate-questions/deepseek with inline text only is dispatched to the
\* DeepSeek adapter when the text has at least 10 characters and is answered 400
\* "Text content must be at least 10 characters long", with no adapter call, when
\* it is shorter
C11_InlineTextOnly ==
    (/\ service = "question_generator"
     /\ Requested
     /\ req.endpoint = "/generate-questions/deepseek"
     /\ OtherFieldsValid(req.body)
     /\ "file" \notin DOMAIN req.body
     /\ "text_content" \in DOMAIN req.body)
        => IF Len(req.body.text_content) >= 10
           THEN adapter = "call_deepseek_api"
           ELSE /\ Answered
                /\ response.status = 400
                /\ Detail = <<"Text content must be at least 10 characters long">>
                /\ adapter = None

\* C12: POST /generate-questions/deepseek/json with a valid body is dispatched to
\* the DeepSeek adapter; with a content shorter than 10 characters it is answered
\* 422 and the adapter is not called
C12_JSONEndpoint ==
    (/\ service = "question_generator"
     /\ Requested
     /\ req.endpoint = "/generate-questions/deepseek/json")
        => IF Len(req.body.content) >= 10
           THEN adapter = "call_deepseek_api"
           ELSE /\ Answered
                /\ response.status = 422
                /\ adapter = None

\* C13: on both question-generation endpoints a num_questions outside 1..20 or a
\* question_type other than mcq, short_answer, fill_in_blanks is answered 422, and
\* neither the extraction nor the adapter runs
C13_InvalidFormIs422 ==
    (/\ service = "question_generator"
     /\ Requested
     /\ req.endpoint \in GenerateEndpoints
     /\ \/ "num_questions" \in DOMAIN req.body /\ req.body.num_questions \notin 1..20
        \/ req.body.question_type \notin {"mcq", "short_answer", "fill_in_blanks"})
        => /\ Answered
           /\ response.status = 422
           /\ "extract" \notin Range(steps)
           /\ adapter = None
           /\ outbound_calls = 0

\* 21 questions were asked of a configured Snowflake with a readable document
C13_Witness ==
    /\ Answered
    /\ req.endpoint = "/generate-questions/snowflake"
    /\ "file" \in DOMAIN req.body
    /\ req.body.file.readable
    /\ req.body.file.size = 0
    /\ req.body.question_type = "mcq"
    /\ "num_questions" \in DOMAIN req.body
    /\ req.body.num_questions = 21
    /\ ~CredentialMissing("snowflake")
    /\ response.status = 422

ProvidersOf(svc) ==
    IF svc = "ai_plugin" THEN {"openai", "gemini", "snowflake"}
    ELSE {"deepseek", "snowflake"}

\* C14: GET /health reports every provider of the service with a boolean that is
\* true exactly when every credential field the provider requires is non-empty,
\* and issues no outbound call
C14_AvailabilityIffCredentials ==
    (Answered /\ req.endpoint = "/health")
        => /\ response.status = 200
           /\ DOMAIN response.body.providers = ProvidersOf(service)
           /\ \A p \in ProvidersOf(service) :
                /\ response.body.providers[p] \in BOOLEAN
                /\ response.body.providers[p] <=> ~CredentialMissing(p)
           /\ outbound_calls = 0
           /\ "post" \notin Range(steps)

\* the question generator reported Snowflake unavailable for a missing warehouse
C14_Witness ==
    /\ Answered
    /\ req.endpoint = "/health"
    /\ service = "question_generator"
    /\ Truthy(settings.snowflake_account)
    /\ Truthy(settings.snowflake_user)
    /\ Truthy(settings.snowflake_password)
    /\ settings.snowflake_warehouse = ""
    /\ response.body.providers.snowflake = FALSE
    /\ response.body.providers.deepseek = TRUE

\* C15: an adapter fails with 503 exactly when check_provider_availability reports
\* its provider as false, and passes its credential check exactly when it reports
\* true
C15_AdapterAgreesWithAvailability ==
    (Requested /\ adapter # None)
        => ((Answered /\ response.status = 503)
                <=> ~check_provider_availability[req.provider])

\* C16: every error response has a JSON body with exactly the fields error, detail
\* and status_code, and status_code is the HTTP status of the response
C16_ErrorEnvelope ==
    (Answered /\ response.status >= 400)
        => /\ DOMAIN response.body = {"error", "detail", "status_code"}
           /\ response.body.status_code = response.status

\* C17: an adapter invocation that passes the credential check issues exactly one
\* outbound HTTP call, never zero and never a second one
C17_ExactlyOneCall ==
    (Requested /\ adapter # None /\ ~(Answered /\ response.status = 503))
        => outbound_calls = 1

\* C18: in every endpoint an HTTPException raised by the adapter or by the
\* extraction step reaches the client with its status code unchanged, and any
\* other exception raised there is answered with status 500
C18_EndpointTry ==
    (Answered /\ "kind" \in DOMAIN upstream /\ upstream.kind = "raise")
        => IF upstream.exc.type = "HTTPException"
           THEN response.status = upstream.exc.status_code
           ELSE response.status = 500

\* the extraction raised an exception that is no HTTPException
C18_Witness ==
    /\ Answered
    /\ req.endpoint = "/generate-questions/deepseek"
    /\ "kind" \in DOMAIN upstream
    /\ upstream.kind = "raise"
    /\ upstream.of = "extract_text_from_pdf"
    /\ upstream.exc.type = "Exception"
    /\ response.status = 500
    /\ Detail = <<"Internal server error during question generation">>

C20_EventuallyAnswered == (pc = "awaiting") ~> Answered

\* the deadline expired on an awaited call and the adapter answered with an error
C20_Witness ==
    /\ Answered
    /\ outbound_calls = 1
    /\ "kind" \in DOMAIN upstream
    /\ upstream.kind = "transport"
    /\ upstream.exc = "TimeoutException"
    /\ response.status >= 500

\* x is None: decided on the printed value, as an equality of a list with the
\* string that stands for None is not defined
IsNone(x) == ToString(x) = ToString(None)

\* a question-generation request was answered with questions
Generated ==
    /\ Answered
    /\ req.endpoint \in GenerateEndpoints
    /\ response.status = 200

\* C22: in every successful question-generation response every question carries
\* the requested question type and has an options list exactly when that type is
\* multiple-choice
C22_TypeAndOptions ==
    Generated =>
        \A i \in DOMAIN response.body.questions :
            LET q == response.body.questions[i] IN
            /\ q.question_type = req.body.question_type
            /\ IF req.body.question_type = "mcq"
               THEN ~IsNone(q.options)
               ELSE IsNone(q.options)

\* the upstream sent options for a short-answer request and they were dropped
C22_Witness ==
    /\ Generated
    /\ Replied
    /\ req.body.question_type = "short_answer"
    /\ upstream.data.choices[1].message.content.kind = "array"
    /\ Len(upstream.data.choices[1].message.content.items) = 1
    /\ "options" \in DOMAIN upstream.data.choices[1].message.content.items[1].fields
    /\ Len(response.body.questions) = 1
    /\ response.body.questions[1].question_text = "What?"
    /\ IsNone(response.body.questions[1].options)

\* C24: in every successful question-generation response the question_id values
\* of the questions are pairwise distinct
C24_DistinctIds ==
    Generated =>
        \A i, j \in DOMAIN response.body.questions :
            i # j => response.body.questions[i].question_id
                         # response.body.questions[j].question_id

\* the request carries a valid form with an upload
Uploaded ==
    /\ Requested
    /\ req.endpoint \in GenerateEndpoints
    /\ FormValid(req.body)

\* C25: on both question-generation endpoints an upload whose name does not end
\* in .pdf, whatever the case of the letters, is answered 400 "Only PDF files are
\* supported", also when it is too large, and a .pdf upload whose reported size
\* exceeds max_file_size is answered 413; neither the extraction nor the adapter
\* runs
C25_FileTypeThenSize ==
    /\ (Uploaded /\ ~endswith(lower(req.body.file.filename), <<".", "p", "d", "f">>))
          => /\ Answered
             /\ response.status = 400
             /\ Detail = <<"Only PDF files are supported">>
             /\ "extract" \notin Range(steps)
             /\ adapter = None
    /\ (/\ Uploaded
        /\ endswith(lower(req.body.file.filename), <<".", "p", "d", "f">>)
        /\ req.body.file.size > max_file_size)
          => /\ Answered
             /\ response.status = 413
             /\ "extract" \notin Range(steps)
             /\ adapter = None

\* a text file larger than max_file_size was refused for its type
C25_Witness ==
    /\ Uploaded
    /\ Answered
    /\ req.body.file.filename = <<"t", ".", "t", "x", "t">>
    /\ req.body.file.size > max_file_size
    /\ response.status = 400
    /\ steps = <<"validate", "file_type">>

\* C26: in every successful question-generation response content_length is the
\* number of characters of the text extracted from the document and handed to the
\* adapter
C26_ContentLength ==
    Generated =>
        /\ adapter_args.content = extract_text_from_pdf(req.body.file).text
        /\ response.body.content_length = Len(adapter_args.content)

\* three characters were extracted from two pages and two placeholder questions made
C26_Witness ==
    /\ Generated
    /\ req.endpoint = "/generate-questions/snowflake"
    /\ req.body.file.pages = <<<<"a">>, <<" ", "b", " ">>>>
    /\ adapter_args.content = <<"a", "\n", " ", "b">>
    /\ response.body.content_length = 4
    /\ Len(response.body.questions) = 3

ChatEndpoints == {"/chat/openai", "/chat/gemini", "/chat/snowflake"}

\* an exception was raised inside the chat adapter after its credential check
RaisedInAdapter ==
    \/ "post" \notin Range(steps)
    \/ /\ Replied
       /\ \/ upstream.kind = "transport"
          \/ upstream.kind = "http" /\ upstream.status \notin 200..299
          \/ upstream.kind = "http" /\ ~upstream.json_ok
          \/ upstream.kind = "http" /\ ~ChatParse(req.provider, upstream).ok

\* C27: a chat request ends with one of the statuses 200, 422, 503, 502, never
\* 500; once the adapter has passed its credential check, an upstream HTTP error,
\* a transport failure, an unusable reply or an uninitialized client is answered
\* 502, and 200 is answered only when none of them happened
C27_ChatStatuses ==
    (Answered /\ req.endpoint \in ChatEndpoints)
        => /\ response.status \in {200, 422, 503, 502}
           /\ response.status = 422 <=> adapter = None
           /\ response.status = 503 <=> (adapter # None /\ CredentialMissing(req.provider))
           /\ (adapter # None /\ ~CredentialMissing(req.provider))
                => (response.status = 502 <=> RaisedInAdapter)

\* the OpenAI adapter was called while the client was never created
C27_Witness ==
    /\ Answered
    /\ req.endpoint = "/chat/openai"
    /\ http_client = None
    /\ adapter = "call_openai_api"
    /\ steps = <<"validate", "credentials">>
    /\ response.status = 502
    /\ Detail = <<"Failed to call OpenAI API: ", "AttributeError">>

\* C23: the prompt handed to a chat adapter is non-empty, has no leading or
\* trailing whitespace and is at most 10000 characters long; a request whose
\* prompt exceeds 10000 characters is answered 422
C23_PromptHandedOver ==
    (Requested /\ req.endpoint \in ChatEndpoints)
        => /\ adapter # None =>
                /\ adapter_args.prompt # <<>>
                /\ ~IsSpace(adapter_args.prompt[1])
                /\ ~IsSpace(adapter_args.prompt[Len(adapter_args.prompt)])
                /\ Len(adapter_args.prompt) <= 10000
                /\ adapter_args.prompt = strip(req.body.prompt)
           /\ ("prompt" \in DOMAIN req.body /\ Len(req.body.prompt) > 10000)
                => /\ Answered
                   /\ response.status = 422
                   /\ adapter = None
                   /\ outbound_calls = 0

\* 9999 letters between two spaces were refused for their 10001 characters
C23_Witness ==
    /\ Answered
    /\ req.endpoint = "/chat/gemini"
    /\ "prompt" \in DOMAIN req.body
    /\ Len(req.body.prompt) = 10001
    /\ req.body.prompt[1] = " "
    /\ Len(strip(req.body.prompt)) = 9999
    /\ response.status = 422
    /\ adapter = None

\* parse_ai_response has returned
Parsed == pc = "done" /\ adapter = "parse_ai_response"

\* the text contains a JSON array all of whose elements build a valid Question
ContainsValidArray ==
    LET text == adapter_args.response_text.main IN
    /\ text.kind = "array"
    /\ \A i \in DOMAIN text.items :
           ParseItem(i, text.items[i], adapter_args.question_type).ok

\* C28: parse_ai_response is all-or-nothing: a text that contains a JSON array
\* whose elements all build a valid Question gives one question per element in
\* upstream order; any other text gives exactly the 3 placeholder questions
C28_AllOrNothing ==
    Parsed =>
        LET text == adapter_args.response_text.main
            qt == adapter_args.question_type
            questions == response.body.questions
        IN IF ContainsValidArray
           THEN /\ Len(questions) = Len(text.items)
                /\ \A i \in DOMAIN text.items :
                       questions[i] = ParseItem(i, text.items[i], qt).value
           ELSE questions = create_mock_questions(qt, 3, "Content parsing failed")

\* C29: for every num_questions n in 1..20 and every question type the Snowflake
\* question-generation adapter with its credentials present returns exactly n
\* questions with the identifiers q1..qn in order; a multiple-choice question has
\* exactly the options A, B, C, D in that order and its correct_answer is one of them
C29_SnowflakePlaceholders ==
    (/\ pc = "done"
     /\ adapter = "call_snowflake_cortex_api"
     /\ req = EmptyObj
     /\ all(<<settings.snowflake_account, settings.snowflake_user,
              settings.snowflake_password>>))
        => /\ response.status = 200
           /\ Len(response.body.questions) = adapter_args.num_questions
           /\ \A i \in DOMAIN response.body.questions :
                LET q == response.body.questions[i] IN
                /\ q.question_id = "q" \o ToString(i)
                /\ q.question_type = adapter_args.question_type
                /\ adapter_args.question_type = "mcq" =>
                       /\ Len(q.options) = 4
                       /\ [k \in 1..4 |-> q.options[k].option_id] = <<"A", "B", "C", "D">>
                       /\ q.correct_answer \in {"A", "B", "C", "D"}

\* twenty multiple-choice questions were asked for
C29_Witness ==
    /\ pc = "done"
    /\ adapter = "call_snowflake_cortex_api"
    /\ req = EmptyObj
    /\ adapter_args.num_questions = 20
    /\ adapter_args.question_type = "mcq"
    /\ settings.snowflake_warehouse = ""
    /\ response.status = 200
    /\ Len(response.body.questions) = 20
    /\ response.body.questions[20].question_id = "q20"
    /\ Len(response.body.questions[20].options) = 4

\* the steps of a question-generation request, in the order of the endpoint
StepOrder ==
    <<"validate", "file_type", "file_size", "extract", "credentials", "post", "reply">>

IsPrefix(s, t) == Len(s) <= Len(t) /\ SubSeq(t, 1, Len(s)) = s

\* the upload passes the checks of its name and size but cannot be processed
Unprocessable(file) ==
    /\ endswith(lower(file.filename), <<".", "p", "d", "f">>)
    /\ ~(file.size > max_file_size)
    /\ \/ ~file.readable
       \/ \A i \in DOMAIN file.pages : \A k \in DOMAIN file.pages[i] : IsSpace(file.pages[i][k])

\* C30: in both question-generation endpoints the steps run in the order form
\* validation, file type, file size, extraction, credential check, outbound call;
\* the step that fails decides the response and no later step runs, so a document
\* that cannot be processed is answered 400 also when the credentials are missing,
\* and 503 is answered only after the extraction succeeded
C30_StepOrder ==
    (Requested /\ req.endpoint \in GenerateEndpoints)
        => /\ IsPrefix(steps, StepOrder)
           /\ Answered =>
                LET last == steps[Len(steps)] IN
                /\ last = "validate" => response.status = 422
                /\ last = "file_type" => response.status = 400
                /\ last = "file_size" => response.status = 413
                /\ last = "extract" => response.status = 400
                /\ last = "credentials" =>
                       response.status \in (IF req.provider = "deepseek" THEN {503}
                                            ELSE {503, 200})
                /\ response.status = 503 =>
                       /\ last = "credentials"
                       /\ extract_text_from_pdf(req.body.file).ok
           /\ (FormValid(req.body) /\ Unprocessable(req.body.file))
                => /\ Answered
                   /\ response.status = 400
                   /\ steps = <<"validate", "file_type", "file_size", "extract">>
                   /\ adapter = None
                   /\ outbound_calls = 0

\* a PDF that cannot be read was posted while the DeepSeek API key is missing
C30_Witness ==
    /\ Answered
    /\ req.endpoint = "/generate-questions/deepseek"
    /\ FormValid(req.body)
    /\ Unprocessable(req.body.file)
    /\ ~req.body.file.readable
    /\ CredentialMissing("deepseek")
    /\ response.status = 400
    /\ Detail = <<"Failed to process PDF file: ", "PdfReadError">>

\* the local variables of request j
LocalsOf(j) ==
    <<pc[j], req[j], adapter[j], adapter_args[j], outbound_calls[j], upstream[j],
      response[j], steps[j]>>

\* the response request i gets from its own input, the configuration and the
\* reply to its own outbound call
OwnResponse(i) ==
    LET l == IF service = "ai_plugin"
             THEN ChatBegin(req[i].provider, req[i].body)
             ELSE GenerateBegin(req[i].provider, req[i].body)
    IN IF l.pc = "done" THEN l.response
       ELSE IF service = "ai_plugin" THEN ChatOutcome(req[i].provider, upstream[i])
       ELSE DeepSeekOutcome(upstream[i], l.adapter_args.content,
                            l.adapter_args.question_type)

====
